---- MODULE Spec2Model ----
(***************************************************************************)
(* Model of the can_signal source, extensions/sources/cansignal/           *)
(* cansignal.go: Configure, Open (with the per-signal mutation and         *)
(* emission goroutines), randomize and Close.                              *)
(*                                                                         *)
(* Go strings are sequences of byte codes (<<49,48>> is "10"), so that     *)
(* strconv parsing and the byte-wise string comparison of Configure are    *)
(* computed, not assumed.  Integers of the program are arbitrary-size      *)
(* signed decimals [neg, mag] (mag a sequence of decimal digits, most      *)
(* significant first) so that the 32 and 64 bit widths are exact.          *)
(***************************************************************************)
EXTENDS Integers, Sequences, FiniteSets, TLC

(***************************************************************************)
(* Decimal magnitudes                                                      *)
(*                                                                         *)
(* The operators below work on magnitudes of several hundred digits (the   *)
(* exact decimal expansion of a float64 has up to 767), so none of them    *)
(* recurses once per digit: they split the digits in halves, the low half  *)
(* first, whose carry the high half takes.                                 *)
(***************************************************************************)
Zeros(n) == [i \in 1..n |-> 0]

\* d without its leading zeros; <<0>> is zero
Strip(d) ==
  IF \A i \in 1..Len(d) : d[i] = 0 THEN <<0>>
  ELSE SubSeq(d, CHOOSE i \in 1..Len(d) : d[i] # 0 /\ \A j \in 1..(i - 1) : d[j] = 0,
              Len(d))

PadTo(d, n) == Zeros(n - Len(d)) \o d

\* byte-wise (or digit-wise) comparison of two sequences: -1, 0 or 1; d is
\* where they first differ, among the n positions both have
LexCmp(a, b) ==
  LET n == IF Len(a) < Len(b) THEN Len(a) ELSE Len(b)
      d == CHOOSE i \in 1..n : a[i] # b[i] /\ \A j \in 1..(i - 1) : a[j] = b[j]
  IN  IF \A i \in 1..n : a[i] = b[i]
        THEN (IF Len(a) < Len(b) THEN -1 ELSE IF Len(a) > Len(b) THEN 1 ELSE 0)
        ELSE (IF a[d] < b[d] THEN -1 ELSE 1)

MagCmp(a, b) ==
  IF Len(a) < Len(b) THEN -1
  ELSE IF Len(a) > Len(b) THEN 1
  ELSE LexCmp(a, b)

RECURSIVE AddRec(_, _, _)
\* a and b of equal length; the sum with carry c, one digit longer
AddRec(a, b, c) ==
  IF Len(a) = 0 THEN <<c>>
  ELSE IF Len(a) = 1 THEN <<(a[1] + b[1] + c) \div 10, (a[1] + b[1] + c) % 10>>
  ELSE LET h == Len(a) \div 2
           Join(lo) == IF lo[1] = 0
                         THEN AddRec(SubSeq(a, 1, h), SubSeq(b, 1, h), 0) \o Tail(lo)
                         ELSE AddRec(SubSeq(a, 1, h), SubSeq(b, 1, h), 1) \o Tail(lo)
       IN  Join(AddRec(SubSeq(a, h + 1, Len(a)), SubSeq(b, h + 1, Len(b)), c))

MagAdd(a, b) ==
  LET n == IF Len(a) > Len(b) THEN Len(a) ELSE Len(b)
  IN  Strip(AddRec(PadTo(a, n), PadTo(b, n), 0))

RECURSIVE SubRec(_, _, _)
\* a and b of equal length; the difference with borrow c, preceded by the
\* borrow out
SubRec(a, b, c) ==
  IF Len(a) = 0 THEN <<c>>
  ELSE IF Len(a) = 1
    THEN <<IF a[1] - b[1] - c < 0 THEN 1 ELSE 0, (a[1] - b[1] - c + 10) % 10>>
  ELSE LET h == Len(a) \div 2
           Join(lo) == IF lo[1] = 0
                         THEN SubRec(SubSeq(a, 1, h), SubSeq(b, 1, h), 0) \o Tail(lo)
                         ELSE SubRec(SubSeq(a, 1, h), SubSeq(b, 1, h), 1) \o Tail(lo)
       IN  Join(SubRec(SubSeq(a, h + 1, Len(a)), SubSeq(b, h + 1, Len(b)), c))

\* a - b for a >= b
MagSub(a, b) ==
  LET n == IF Len(a) > Len(b) THEN Len(a) ELSE Len(b)
  IN  Strip(Tail(SubRec(PadTo(a, n), PadTo(b, n), 0)))

RECURSIVE SmallMag(_)
\* the digits of the small number n
SmallMag(n) == IF n < 10 THEN <<n>> ELSE SmallMag(n \div 10) \o <<n % 10>>

RECURSIVE SmallVal(_, _)
\* the small number of at most nine digits d (acc is the value so far)
SmallVal(d, acc) == IF Len(d) = 0 THEN acc ELSE SmallVal(Tail(d), acc * 10 + d[1])

RECURSIVE MulRec(_, _, _)
\* the digits of a * m + c for a small m, preceded by the carry out
MulRec(a, m, c) ==
  IF Len(a) = 0 THEN <<c>>
  ELSE IF Len(a) = 1 THEN <<(a[1] * m + c) \div 10, (a[1] * m + c) % 10>>
  ELSE LET h == Len(a) \div 2
           Join(lo) == IF lo[1] = 0 THEN MulRec(SubSeq(a, 1, h), m, 0) \o Tail(lo)
                       ELSE MulRec(SubSeq(a, 1, h), m, lo[1]) \o Tail(lo)
       IN  Join(MulRec(SubSeq(a, h + 1, Len(a)), m, c))

\* a * m for m below 10^8
MulSmall(a, m) ==
  LET Join(r) == Strip(SmallMag(r[1]) \o Tail(r))
  IN  Join(MulRec(a, m, 0))

RECURSIVE MagMul(_, _)
MagMul(a, b) ==
  IF Len(b) <= 8 THEN MulSmall(a, SmallVal(b, 0))
  ELSE MagAdd(MagMul(a, SubSeq(b, 1, Len(b) \div 2)) \o Zeros(Len(b) - Len(b) \div 2),
              MagMul(a, SubSeq(b, Len(b) \div 2 + 1, Len(b))))

RECURSIVE Scale(_, _, _)
\* a * b^k for b = 2 or 5 and k >= 0
Scale(a, b, k) ==
  IF a = <<0>> THEN a
  ELSE IF k <= 11 THEN MulSmall(a, b ^ k)
  ELSE Scale(Scale(a, b, k \div 2), b, k - k \div 2)

RECURSIVE Fit(_, _, _)
\* how often b fits into r < 10 * b, and what is left (n counts)
Fit(r, b, n) ==
  IF MagCmp(r, b) < 0 THEN [q |-> n, r |-> r] ELSE Fit(MagSub(r, b), b, n + 1)

RECURSIVE DivRec(_, _, _)
\* long division of a by b, the digits of a up to the i-th brought down:
\* the quotient digits found and the remainder
DivRec(a, b, i) ==
  IF i < Len(b) THEN [q |-> <<>>, r |-> Strip(SubSeq(a, 1, i))]
  ELSE LET Bring(st) == [q |-> st.q \o <<Fit(Strip(st.r \o <<a[i]>>), b, 0).q>>,
                         r |-> Fit(Strip(st.r \o <<a[i]>>), b, 0).r]
       IN  Bring(DivRec(a, b, i - 1))

\* quotient and remainder of a by b > 0, for a quotient of a few digits
MagDiv(a, b) ==
  IF b = <<1>> THEN [q |-> a, r |-> <<0>>]
  ELSE IF Len(a) < Len(b) THEN [q |-> <<0>>, r |-> a]
  ELSE [q |-> Strip(DivRec(a, b, Len(a)).q), r |-> DivRec(a, b, Len(a)).r]

\* d \div 2
Halve(d) ==
  Strip([i \in 1..Len(d) |-> (d[i] + (IF i > 1 THEN 10 * (d[i - 1] % 2) ELSE 0)) \div 2])

(***************************************************************************)
(* Signed numbers                                                          *)
(***************************************************************************)
Num(neg, mag) ==
  LET m == Strip(mag) IN [neg |-> neg /\ m # <<0>>, mag |-> m]

Zero == Num(FALSE, <<0>>)
One == Num(FALSE, <<1>>)

Neg(x) == Num(~x.neg, x.mag)

NumCmp(x, y) ==
  IF x.neg /\ ~y.neg THEN -1
  ELSE IF ~x.neg /\ y.neg THEN 1
  ELSE IF x.neg THEN MagCmp(y.mag, x.mag)
  ELSE MagCmp(x.mag, y.mag)

NumLt(x, y) == NumCmp(x, y) < 0
NumLe(x, y) == NumCmp(x, y) <= 0

NumAdd(x, y) ==
  IF x.neg = y.neg THEN Num(x.neg, MagAdd(x.mag, y.mag))
  ELSE IF MagCmp(x.mag, y.mag) >= 0 THEN Num(x.neg, MagSub(x.mag, y.mag))
  ELSE Num(y.neg, MagSub(y.mag, x.mag))

NumSub(x, y) == NumAdd(x, Neg(y))

\* 2^31, 2^32, 2^63, 2^64
Pow2(bits) ==
  CASE bits = 31 -> Num(FALSE, <<2,1,4,7,4,8,3,6,4,8>>)
    [] bits = 32 -> Num(FALSE, <<4,2,9,4,9,6,7,2,9,6>>)
    [] bits = 63 -> Num(FALSE, <<9,2,2,3,3,7,2,0,3,6,8,5,4,7,7,5,8,0,8>>)
    [] bits = 64 -> Num(FALSE, <<1,8,4,4,6,7,4,4,0,7,3,7,0,9,5,5,1,6,1,6>>)

MaxSigned(bits) == NumSub(Pow2(bits - 1), One)
MinSigned(bits) == Neg(Pow2(bits - 1))
MaxUnsigned(bits) == NumSub(Pow2(bits), One)

\* two's complement wrap of the exact result of one addition or subtraction
\* of two values of the type
WrapSigned(x, bits) ==
  IF NumLt(MaxSigned(bits), x) THEN NumSub(x, Pow2(bits))
  ELSE IF NumLt(x, MinSigned(bits)) THEN NumAdd(x, Pow2(bits))
  ELSE x

WrapUnsigned(x, bits) ==
  IF x.neg THEN NumAdd(x, Pow2(bits))
  ELSE IF NumLt(MaxUnsigned(bits), x) THEN NumSub(x, Pow2(bits))
  ELSE x

(***************************************************************************)
(* strconv                                                                 *)
(***************************************************************************)
IsDigit(c) == c >= 48 /\ c <= 57

\* a digit of the base: 0-9, and a-f in a hexadecimal mantissa
IsDigitOf(c, hex) ==
  IsDigit(c) \/ (hex /\ ((c >= 97 /\ c <= 102) \/ (c >= 65 /\ c <= 70)))

\* the length of the longest prefix of s made of digits of the base
DigitRun(s, hex) ==
  IF \A i \in 1..Len(s) : IsDigitOf(s[i], hex) THEN Len(s)
  ELSE (CHOOSE i \in 1..Len(s) :
          ~IsDigitOf(s[i], hex) /\ \A j \in 1..(i - 1) : IsDigitOf(s[j], hex)) - 1

DigitsOf(s) == [i \in 1..Len(s) |-> s[i] - 48]

\* strconv.ParseUint(s, 10, bits): the bytes are read from the left; a byte
\* that is no digit is a syntax error, and a digit that takes the value past
\* 2^bits - 1 is a range error at once, whatever follows it
ParseUint(s, bits) ==
  IF Len(s) = 0 THEN [err |-> "syntax", val |-> Zero]
  ELSE IF NumLt(MaxUnsigned(bits), Num(FALSE, DigitsOf(SubSeq(s, 1, DigitRun(s, FALSE)))))
    THEN [err |-> "range", val |-> MaxUnsigned(bits)]
  ELSE IF DigitRun(s, FALSE) < Len(s) THEN [err |-> "syntax", val |-> Zero]
  ELSE [err |-> "nil", val |-> Num(FALSE, DigitsOf(s))]

\* strconv.ParseInt(s, 10, bits): an optional sign, then ParseUint, whose
\* range error is kept, then the range of the signed type
ParseInt(s, bits) ==
  IF Len(s) = 0 THEN [err |-> "syntax", val |-> Zero]
  ELSE LET signed == s[1] = 43 \/ s[1] = 45
           neg == s[1] = 45
           rest == IF signed THEN Tail(s) ELSE s
           un == ParseUint(rest, bits)
       IN  IF un.err = "syntax" THEN [err |-> "syntax", val |-> Zero]
           ELSE IF ~neg /\ NumLe(Pow2(bits - 1), un.val)
             THEN [err |-> "range", val |-> MaxSigned(bits)]
           ELSE IF neg /\ NumLt(Pow2(bits - 1), un.val)
             THEN [err |-> "range", val |-> MinSigned(bits)]
           ELSE [err |-> "nil", val |-> Num(neg, un.val.mag)]

(***************************************************************************)
(* Floating point values: NaN, the infinities, or the finite decimal       *)
(* mag * 10^exp with sign.  Every float32 and float64 is such a decimal,   *)
(* and every result is rounded to the nearest value of its type, ties to   *)
(* the even mantissa, as strconv and the hardware do.  Zero has a sign.    *)
(***************************************************************************)
\* how many zeros d ends with (none for zero itself)
TrailingZeros(d) ==
  IF d[Len(d)] # 0 \/ \A i \in 1..Len(d) : d[i] = 0 THEN 0
  ELSE Len(d) - (CHOOSE i \in 1..Len(d) : d[i] # 0 /\ \A j \in (i + 1)..Len(d) : d[j] = 0)

\* the finite value mag * 10^exp, normalised: no leading and no trailing zero
\* (m is bound to the stripped digits, so that they are computed once)
Fin(neg, mag, exp) ==
  CHOOSE v \in {[kind |-> "fin", neg |-> neg,
                 mag |-> SubSeq(m, 1, Len(m) - TrailingZeros(m)),
                 exp |-> IF m = <<0>> THEN 0 ELSE exp + TrailingZeros(m)] :
                  m \in {Strip(mag)}} : TRUE
NaN == [kind |-> "nan", neg |-> FALSE, mag |-> <<0>>, exp |-> 0]
Inf(neg) == [kind |-> "inf", neg |-> neg, mag |-> <<0>>, exp |-> 0]
FloatZero(neg) == Fin(neg, <<0>>, 0)

\* the type of `bits` bits: its mantissa bits (the implicit one counted),
\* the binary exponents of its least and its greatest unit in the last
\* place, 2^(mantissa bits), and the most decimal digits of which every
\* integer is a value of the type (10^7 < 2^24 and 10^15 < 2^53)
floatInfo(bits) ==
  IF bits = 32
    THEN [mantbits |-> 24, minUlp |-> 0 - 149, maxUlp |-> 104, exactDigits |-> 7,
          limit |-> <<1,6,7,7,7,2,1,6>>]
    ELSE [mantbits |-> 53, minUlp |-> 0 - 1074, maxUlp |-> 971, exactDigits |-> 15,
          limit |-> <<9,0,0,7,1,9,9,2,5,4,7,4,0,9,9,2>>]

\* a lower estimate of floor(log2(mant * 10^e10 * 2^e2)), at most 5 below it
Log2Floor(mant, e10, e2) ==
  LET d == Len(mant) - 1 + e10
  IN  (d * (IF d >= 0 THEN 3321 ELSE 3322)) \div 1000 + e2

RECURSIVE Shift(_, _, _, _, _)
\* q * 2^u with the last bit shifted out g and whether any bit shifted out
\* before it was set: shifted right until q fits the mantissa
Shift(q, u, g, sticky, bits) ==
  IF MagCmp(q, floatInfo(bits).limit) < 0 THEN [q |-> q, u |-> u, g |-> g, sticky |-> sticky]
  ELSE Shift(Halve(q), u + 1, q[Len(q)] % 2 = 1, sticky \/ g, bits)

\* the shifted mantissa s rounded to nearest, ties to even: the finite
\* value q * 2^u, or out of range when it passes the largest finite value
RoundBits(neg, s, bits) ==
  LET Up(q) ==
        IF s.u > floatInfo(bits).maxUlp
             \/ (s.u = floatInfo(bits).maxUlp /\ q = floatInfo(bits).limit)
          THEN [err |-> "range", val |-> Inf(neg)]
          ELSE [err |-> "nil",
                val |-> IF s.u >= 0 THEN Fin(neg, Scale(q, 2, s.u), 0)
                        ELSE Fin(neg, Scale(q, 5, 0 - s.u), s.u)]
  IN  Up(IF s.g /\ (s.sticky \/ s.q[Len(s.q)] % 2 = 1) THEN MagAdd(s.q, <<1>>) ELSE s.q)

\* the quotient d of the value by 2^u, with one bit to spare, rounded: its
\* last bit and its remainder are the bits shifted out
RoundQuotient(neg, d, u, bits) ==
  RoundBits(neg, Shift(Halve(d.q), u + 1, d.q[Len(d.q)] % 2 = 1, d.r # <<0>>, bits), bits)

\* mant * 10^e10 * 2^e2 rounded to a multiple of 2^(u + 1) or a coarser one
RoundAt(neg, mant, e10, e2, u, bits) ==
  RoundQuotient(neg,
    MagDiv(Scale(Scale(mant, 5, IF e10 > 0 THEN e10 ELSE 0), 2,
                 IF e10 + e2 - u > 0 THEN e10 + e2 - u ELSE 0),
           Scale(Scale(<<1>>, 5, IF e10 < 0 THEN 0 - e10 ELSE 0), 2,
                 IF e10 + e2 - u < 0 THEN u - e10 - e2 ELSE 0)),
    u, bits)

\* the value of mant * 10^e10 * 2^e2 in the type: the nearest value of the
\* type, out of range (an infinity) above the largest finite value, zero
\* below half the smallest.  A short integer is a value of the type as it
\* stands, and so is a short integer divided by a small power of two,
\* m / 10^n with 5^n a divisor of m (the exact path of strconv).
FloatResult(neg, mant, e10, e2, bits) ==
  CHOOSE v \in {
    LET lg == Log2Floor(m, e10, e2)
    IN  IF m = <<0>> THEN [err |-> "nil", val |-> FloatZero(neg)]
        ELSE IF e2 = 0 /\ e10 >= 0 /\ Len(m) + e10 <= floatInfo(bits).exactDigits
          THEN [err |-> "nil", val |-> Fin(neg, m, e10)]
        ELSE IF e2 = 0 /\ e10 < 0 /\ e10 >= 0 - 8 /\ Len(m) <= floatInfo(bits).exactDigits
                /\ MagDiv(m, SmallMag(5 ^ (0 - e10))).r = <<0>>
          THEN [err |-> "nil", val |-> Fin(neg, m, e10)]
        ELSE IF lg > floatInfo(bits).maxUlp + floatInfo(bits).mantbits
          THEN [err |-> "range", val |-> Inf(neg)]
        ELSE IF lg + 6 < floatInfo(bits).minUlp THEN [err |-> "nil", val |-> FloatZero(neg)]
        ELSE RoundAt(neg, m, e10, e2,
                     IF lg - floatInfo(bits).mantbits > floatInfo(bits).minUlp - 1
                       THEN lg - floatInfo(bits).mantbits ELSE floatInfo(bits).minUlp - 1,
                     bits) : m \in {Strip(mant)}} : TRUE

Lower(s) == [i \in 1..Len(s) |-> IF s[i] >= 65 /\ s[i] <= 90 THEN s[i] + 32 ELSE s[i]]

Drop(s, n) == SubSeq(s, n + 1, Len(s))

RECURSIVE SmallNat(_, _)
\* the exponent loop of readFloat: e = e*10 + digit while e < 10000
SmallNat(s, acc) ==
  IF Len(s) = 0 THEN acc
  ELSE SmallNat(Tail(s), IF acc < 10000 THEN acc * 10 + (s[1] - 48) ELSE acc)

RECURSIVE HexMag(_, _)
\* the magnitude of the hexadecimal digits s (acc is the value so far)
HexMag(s, acc) ==
  IF Len(s) = 0 THEN acc
  ELSE HexMag(Tail(s),
              MagAdd(MulSmall(acc, 16),
                     SmallMag(IF IsDigit(s[1]) THEN s[1] - 48
                              ELSE IF s[1] >= 97 THEN s[1] - 87 ELSE s[1] - 55)))

SyntaxError == [err |-> "syntax", val |-> FloatZero(FALSE)]

\* the mantissa digits (nf of them after the point) and the exponent ex: a
\* hexadecimal mantissa has a binary exponent
ParseMantissa(neg, digits, nf, ex, hex, bits) ==
  IF hex THEN FloatResult(neg, HexMag(digits, <<0>>), 0, ex - 4 * nf, bits)
  ELSE FloatResult(neg, DigitsOf(digits), ex - nf, 0, bits)

\* the exponent after "e" or "p": an optional sign and at least one digit.
\* Of the digits, leading zeros add nothing, and none is added once the value
\* is 10000 or more, which it is after five significant digits
ParseExponent(neg, digits, nf, e, hex, bits) ==
  LET Exponent(d) ==
        SmallNat(SubSeq(d, Len(d) - Len(Strip(DigitsOf(d))) + 1,
                        IF Len(Strip(DigitsOf(d))) < 6 THEN Len(d)
                        ELSE Len(d) - Len(Strip(DigitsOf(d))) + 6), 0)
  IN
  IF Len(e) = 0 THEN SyntaxError
  ELSE IF e[1] = 43 \/ e[1] = 45
    THEN IF Len(e) = 1 \/ DigitRun(Tail(e), FALSE) < Len(e) - 1 THEN SyntaxError
         ELSE ParseMantissa(neg, digits, nf,
                (IF e[1] = 45 THEN 0 - Exponent(Tail(e)) ELSE Exponent(Tail(e))), hex, bits)
  ELSE IF DigitRun(e, FALSE) < Len(e) THEN SyntaxError
  ELSE ParseMantissa(neg, digits, nf, Exponent(e), hex, bits)

\* the digits read so far (nf of them after the point), then the rest: the
\* end of the string or an exponent, which a hexadecimal mantissa must have
ParseAfterMantissa(neg, digits, nf, rest, hex, bits) ==
  IF Len(digits) = 0 THEN SyntaxError
  ELSE IF Len(rest) = 0
    THEN (IF hex THEN SyntaxError ELSE ParseMantissa(neg, digits, nf, 0, hex, bits))
  ELSE IF Lower(rest)[1] = (IF hex THEN 112 ELSE 101)
    THEN ParseExponent(neg, digits, nf, Tail(rest), hex, bits)
  ELSE SyntaxError

\* the integer digits read, then the rest: an optional point and digits
ParseAfterInt(neg, int, rest, hex, bits) ==
  IF Len(rest) > 0 /\ rest[1] = 46
    THEN ParseAfterMantissa(neg, int \o SubSeq(Tail(rest), 1, DigitRun(Tail(rest), hex)),
                            DigitRun(Tail(rest), hex),
                            Drop(Tail(rest), DigitRun(Tail(rest), hex)), hex, bits)
    ELSE ParseAfterMantissa(neg, int, 0, rest, hex, bits)

\* readFloat after the sign, on a string without underscores: "0x" and
\* more starts a hexadecimal mantissa
readFloat(neg, s, bits) ==
  IF Len(s) > 2 /\ s[1] = 48 /\ Lower(s)[2] = 120
    THEN ParseAfterInt(neg, SubSeq(s, 3, 2 + DigitRun(Drop(s, 2), TRUE)),
                       Drop(s, 2 + DigitRun(Drop(s, 2), TRUE)), TRUE, bits)
    ELSE ParseAfterInt(neg, SubSeq(s, 1, DigitRun(s, FALSE)),
                       Drop(s, DigitRun(s, FALSE)), FALSE, bits)

\* underscoreOK of strconv, after the sign: an underscore stands between
\* two digits, or between a base prefix and a digit
underscoreOK(s) ==
  LET prefix == Len(s) >= 2 /\ s[1] = 48 /\ Lower(s)[2] \in {98, 111, 120}
      hex == Len(s) >= 2 /\ Lower(s)[2] = 120
  IN  \A i \in 1..Len(s) :
        s[i] = 95 =>
          /\ i > 1 /\ i < Len(s)
          /\ IsDigitOf(s[i + 1], prefix /\ hex)
          /\ \/ (prefix /\ i = 3)
             \/ ((~prefix \/ i > 3) /\ IsDigitOf(s[i - 1], prefix /\ hex))

\* "inf" and "infinity" in any case
IsInfWord(w) ==
  Lower(w) = <<105,110,102>> \/ Lower(w) = <<105,110,102,105,110,105,116,121>>

\* strconv.ParseFloat(s, bits): "nan" (which takes no sign), or an optional
\* sign and then "inf", "infinity", a decimal number with an optional point
\* and exponent, or a hexadecimal one with a binary exponent; underscores
\* may separate the digits of a number
ParseFloat(s, bits) ==
  LET neg == s[1] = 45
      t == IF s[1] = 43 \/ s[1] = 45 THEN Tail(s) ELSE s
  IN  IF Len(s) = 0 THEN SyntaxError
      ELSE IF Lower(s) = <<110,97,110>> THEN [err |-> "nil", val |-> NaN]
      ELSE IF IsInfWord(t) THEN [err |-> "nil", val |-> Inf(neg)]
      ELSE IF ~underscoreOK(t) THEN SyntaxError
      ELSE readFloat(neg, SelectSeq(t, LAMBDA c : c # 95), bits)

\* x + y on finite decimals, exact; a zero sum is +0 unless both are -0
FinAdd(x, y) ==
  LET e == IF x.exp < y.exp THEN x.exp ELSE y.exp
      Align(z) == Num(z.neg, z.mag \o Zeros(z.exp - e))
      Sum(s) == Fin(IF s.mag = <<0>> THEN x.neg /\ y.neg ELSE s.neg, s.mag, e)
  IN  Sum(NumAdd(Align(x), Align(y)))

\* x in the type of `bits` bits: the rounding of an exact result, and the
\* conversion float32(x) of a float64
FloatNarrow(x, bits) ==
  IF x.kind = "fin" THEN FloatResult(x.neg, x.mag, x.exp, 0, bits).val ELSE x

\* IEEE addition in the type of `bits` bits
FloatAdd(x, y, bits) ==
  IF x.kind = "nan" \/ y.kind = "nan" THEN NaN
  ELSE IF x.kind = "inf" /\ y.kind = "inf"
    THEN (IF x.neg = y.neg THEN x ELSE NaN)
  ELSE IF x.kind = "inf" THEN x
  ELSE IF y.kind = "inf" THEN y
  ELSE FloatNarrow(FinAdd(x, y), bits)

FloatNeg(x) ==
  IF x.kind = "nan" THEN NaN
  ELSE IF x.kind = "inf" THEN Inf(~x.neg)
  ELSE Fin(~x.neg, x.mag, x.exp)

FloatSub(x, y, bits) == FloatAdd(x, FloatNeg(y), bits)

\* IEEE multiplication in the type of `bits` bits
FloatMul(x, y, bits) ==
  IF x.kind = "nan" \/ y.kind = "nan" THEN NaN
  ELSE IF x.kind = "inf" \/ y.kind = "inf"
    THEN (IF (x.kind = "fin" /\ x.mag = <<0>>) \/ (y.kind = "fin" /\ y.mag = <<0>>)
            THEN NaN ELSE Inf(x.neg # y.neg))
  ELSE FloatNarrow(Fin(x.neg # y.neg, MagMul(x.mag, y.mag), x.exp + y.exp), bits)

RECURSIVE Shortest(_, _, _)
\* the shortest decimal that the type of `bits` bits reads back as x:
\* the text strconv.FormatFloat(x, 'g', -1, bits) stands for.  Of the
\* decimals of n digits next to x, the one below, the one above and the
\* nearer of the two (ties to even) are tried, for n = 1, 2, ...
Shortest(x, n, bits) ==
  IF n >= Len(x.mag) THEN x
  ELSE LET d == x.mag
           cut == SubSeq(d, 1, n)
           more == \/ d[n + 1] > 5
                   \/ d[n + 1] = 5 /\ (\E i \in (n + 2)..Len(d) : d[i] # 0)
                   \/ d[n + 1] = 5 /\ cut[n] % 2 = 1
           down == Fin(x.neg, cut, x.exp + Len(d) - n)
           up == Fin(x.neg, MagAdd(cut, <<1>>), x.exp + Len(d) - n)
           Pick(okdown, okup) ==
             IF okdown /\ okup THEN (IF more THEN up ELSE down)
             ELSE IF okdown THEN down
             ELSE IF okup THEN up
             ELSE Shortest(x, n + 1, bits)
       IN  Pick(FloatNarrow(down, bits) = x, FloatNarrow(up, bits) = x)

(***************************************************************************)
(* randomize                                                               *)
(***************************************************************************)
\* of the results math/rand can give, how many from each end of the range
\* are followed
MaxDraw == 2

\* what math/rand draws at one call: the i-th value from the low or from the
\* high end of the range of the call
Draws == {<<end, i>> : end \in {"lo", "hi"}, i \in 0 .. MaxDraw - 1}

\* the result of rand.Int31n(n), rand.Int63n(n), rand.Uint32() % n or
\* rand.Uint64() % n for n > 0, a value of [0, n): the draw rnd picks i or
\* n - 1 - i, the nearest value of the range when there is no such one
DrawInt(rnd, n) ==
  IF NumLt(Num(FALSE, SmallMag(rnd[2])), n)
    THEN (IF rnd[1] = "lo" THEN Num(FALSE, SmallMag(rnd[2]))
          ELSE NumSub(NumSub(n, One), Num(FALSE, SmallMag(rnd[2]))))
    ELSE (IF rnd[1] = "lo" THEN NumSub(n, One) ELSE Zero)

\* rand.Float32() and rand.Float64(), a multiple of 2^-24 resp. 2^-53 in
\* [0, 1): the draw rnd picks i / 2^MaxDraw or 1 - (i + 1) / 2^MaxDraw
DrawUnit(rnd) ==
  Fin(FALSE,
      SmallMag((IF rnd[1] = "lo" THEN rnd[2] ELSE 2 ^ MaxDraw - 1 - rnd[2]) * 5 ^ MaxDraw),
      0 - MaxDraw)

RandOk(name, type, val) == [status |-> "ok", name |-> name, type |-> type, val |-> val]
RandErr(err) == [status |-> "err", name |-> "", type |-> "", val |-> err]
RandPanic(msg) == [status |-> "panic", name |-> "", type |-> "", val |-> msg]

\* rand.Int31n(n) + min and rand.Int63n(n) + min: the draw panics unless
\* n > 0, and the sum wraps
drawSigned(name, bits, min, n, rnd) ==
  IF NumLe(n, Zero)
    THEN RandPanic(IF bits = 32 THEN "invalid argument to Int31n"
                   ELSE "invalid argument to Int63n")
    ELSE RandOk(name, IF bits = 32 THEN "int32" ELSE "int64",
                WrapSigned(NumAdd(DrawInt(rnd, n), min), bits))

\* case "int32", "sint32" and case "int64", with both bounds parsed
signedBetween(name, bits, minValue, maxValue, rnd) ==
  IF minValue.err # "nil" THEN RandErr(minValue.err)
  ELSE IF maxValue.err # "nil" THEN RandErr(maxValue.err)
  ELSE drawSigned(name, bits, minValue.val,
                  WrapSigned(NumSub(maxValue.val, minValue.val), bits), rnd)

\* case "int32", "sint32" and case "int64"
randomizeSigned(name, bits, minValuePhy, maxValuePhy, rnd) ==
  signedBetween(name, bits, ParseInt(minValuePhy, bits), ParseInt(maxValuePhy, bits), rnd)

\* rand.Uint32() % n + min and rand.Uint64() % n + min: the remainder panics
\* when n = 0, and the sum wraps
drawUnsigned(name, bits, min, n, rnd) ==
  IF n = Zero THEN RandPanic("integer divide by zero")
  ELSE RandOk(name, IF bits = 32 THEN "uint32" ELSE "uint64",
              WrapUnsigned(NumAdd(DrawInt(rnd, n), min), bits))

\* case "uint32" and case "uint64", with both bounds parsed
unsignedBetween(name, bits, minValue, maxValue, rnd) ==
  IF minValue.err # "nil" THEN RandErr(minValue.err)
  ELSE IF maxValue.err # "nil" THEN RandErr(maxValue.err)
  ELSE drawUnsigned(name, bits, minValue.val,
                    WrapUnsigned(NumSub(maxValue.val, minValue.val), bits), rnd)

\* case "uint32" and case "uint64"
randomizeUnsigned(name, bits, minValuePhy, maxValuePhy, rnd) ==
  unsignedBetween(name, bits, ParseUint(minValuePhy, bits), ParseUint(maxValuePhy, bits), rnd)

\* case "float", "float32" and case "double", "float64", with both bounds
\* parsed: rand * float(max - min) + float(min), the difference taken in
\* float64 and the product and the sum in the type
floatBetween(name, bits, minValue, maxValue, rnd) ==
  IF minValue.err # "nil" THEN RandErr(minValue.err)
  ELSE IF maxValue.err # "nil" THEN RandErr(maxValue.err)
  ELSE RandOk(name, IF bits = 32 THEN "float32" ELSE "float64",
              FloatAdd(FloatMul(DrawUnit(rnd),
                                FloatNarrow(FloatSub(maxValue.val, minValue.val, 64), bits),
                                bits),
                       FloatNarrow(minValue.val, bits), bits))

\* case "float", "float32" and case "double", "float64"
randomizeFloat(name, bits, minValuePhy, maxValuePhy, rnd) ==
  floatBetween(name, bits, ParseFloat(minValuePhy, bits), ParseFloat(maxValuePhy, bits), rnd)

randomize(name, dataType, minValuePhy, maxValuePhy, rnd) ==
  CASE dataType \in {"int32", "sint32"} ->
         randomizeSigned(name, 32, minValuePhy, maxValuePhy, rnd)
    [] dataType = "int64" ->
         randomizeSigned(name, 64, minValuePhy, maxValuePhy, rnd)
    [] dataType = "uint32" ->
         randomizeUnsigned(name, 32, minValuePhy, maxValuePhy, rnd)
    [] dataType = "uint64" ->
         randomizeUnsigned(name, 64, minValuePhy, maxValuePhy, rnd)
    [] dataType \in {"float", "float32"} ->
         randomizeFloat(name, 32, minValuePhy, maxValuePhy, rnd)
    [] dataType \in {"double", "float64"} ->
         randomizeFloat(name, 64, minValuePhy, maxValuePhy, rnd)
    [] OTHER -> RandErr("unkonw data type")

(***************************************************************************)
(* encoding/json                                                           *)
(*                                                                         *)
(* The bytes of a slot are nil, empty, or the text of a one-member object  *)
(* {"key":num} with num a decimal literal.  Decoding into a                *)
(* map[string]interface{} yields every number as a float64.                *)
(***************************************************************************)
\* the length of the text json.Marshal writes for the number x: an integer
\* in decimal; a float with the digits of x in the format 'f', or in the
\* format 'e' when |x| < 1e-6 or |x| >= 1e21, where a negative exponent of
\* one digit is written without its leading zero
NumLen(x) ==
  (IF x.neg THEN 1 ELSE 0) +
  (IF x.mag = <<0>> THEN 1
   ELSE IF Len(x.mag) + x.exp <= 0 - 6 \/ Len(x.mag) + x.exp >= 22
     THEN (IF Len(x.mag) > 1 THEN Len(x.mag) + 1 ELSE 1) + 2 +
          (IF Len(x.mag) + x.exp - 1 >= 100 \/ Len(x.mag) + x.exp - 1 <= 0 - 100 THEN 3
           ELSE IF Len(x.mag) + x.exp - 1 > 0 - 10 /\ Len(x.mag) + x.exp - 1 < 0 THEN 1
           ELSE 2)
   ELSE IF x.exp >= 0 THEN Len(x.mag) + x.exp
   ELSE IF Len(x.mag) + x.exp > 0 THEN Len(x.mag) + 1
   ELSE 2 - x.exp)

\* a []byte is a slice header: the bytes its pointer leads to (kind, key,
\* num) and its length.  A nil slice has no pointer
NilBytes == [kind |-> "nil", key |-> "", num |-> Fin(FALSE, <<0>>, 0), len |-> 0]
EmptyBytes == [kind |-> "empty", key |-> "", num |-> Fin(FALSE, <<0>>, 0), len |-> 0]
\* the text {"key":num}
ObjectBytes(key, num) ==
  [kind |-> "object", key |-> key, num |-> num, len |-> Len(key) + 5 + NumLen(num)]

\* the header a read or a pair of writes that race on a slot can make of the
\* headers p and l: the pointer of the one with the length of the other
Tear(p, l) == [p EXCEPT !.len = l.len]

\* json.Marshal of the map randomize returned: an integer is written in
\* decimal, a finite float as the shortest decimal that reads back as the
\* same value of its type, and NaN and the infinities are an
\* UnsupportedValueError
Marshal(r) ==
  IF r.type \in {"float32", "float64"}
    THEN IF r.val.kind = "fin"
           THEN [err |-> "nil",
                 bytes |-> ObjectBytes(r.name,
                             Shortest(r.val, 1, IF r.type = "float32" THEN 32 ELSE 64))]
           ELSE [err |-> "unsupported value", bytes |-> NilBytes]
    ELSE [err |-> "nil", bytes |-> ObjectBytes(r.name, Fin(r.val.neg, r.val.mag, 0))]

\* json.Unmarshal of the bytes into next, an empty map[string]interface{}:
\* a number decodes to the float64 nearest to its decimal literal; on an
\* error next stays empty.  A header whose length is not that of its text
\* has the text cut short or followed by the bytes behind it, which is no
\* JSON; with a length and no pointer the first byte read is at address 0
Unmarshal(bytes) ==
  IF bytes.kind = "nil" /\ bytes.len > 0
    THEN [err |-> "nil pointer dereference", next |-> {}]
  ELSE IF bytes.kind = "object" /\ bytes.len = ObjectBytes(bytes.key, bytes.num).len
    THEN [err |-> "nil", next |-> {[key |-> bytes.key, val |-> FloatNarrow(bytes.num, 64)]}]
  ELSE IF bytes.kind = "object" /\ bytes.len > ObjectBytes(bytes.key, bytes.num).len
    THEN [err |-> "invalid character", next |-> {}]
  ELSE IF bytes.len > 0 /\ bytes.kind = "empty"
    THEN [err |-> "invalid character", next |-> {}]
  ELSE [err |-> "unexpected end of JSON input", next |-> {}]

(***************************************************************************)
(* The source: configuration                                               *)
(***************************************************************************)
\* make([][]byte, 100)
ListCap == 100

\* how many ticks of the cyclicT tickers together are followed
MaxTicks == 2

\* how many ticks of the changeT tickers together are followed
MaxChanges == 1

\* how many calls of Open on the source are followed
MaxOpens == 1

canSignal(name, dataType, minValuePhy, maxValuePhy, cyclicTime, changeTime) ==
  [Name |-> name, DataType |-> dataType, MinValuePhy |-> minValuePhy,
   MaxValuePhy |-> maxValuePhy, CyclicTime |-> cyclicTime, ChangeTime |-> changeTime]

\* the text of a decimal number
Text(neg, digits) ==
  (IF neg THEN <<45>> ELSE <<>>) \o [i \in 1..Len(digits) |-> 48 + digits[i]]

\* signalError with cyclicTime = 0 let through
signalErrorZeroCycle(v) ==
  IF v.CyclicTime < 0 THEN "cyclicTime"
  ELSE IF v.ChangeTime < 0 THEN "changeTime"
  ELSE IF LexCmp(v.MaxValuePhy, v.MinValuePhy) < 0 THEN "maxValuePhy"
  ELSE "nil"

\* the error of one iteration of the validation loop of Configure for the
\* signal v, "nil" when v passes; the bounds are compared as strings
signalError(v) ==
  IF v.CyclicTime <= 0 THEN "cyclicTime"
  ELSE IF v.ChangeTime < 0 THEN "changeTime"
  ELSE IF LexCmp(v.MaxValuePhy, v.MinValuePhy) < 0 THEN "maxValuePhy"
  ELSE "nil"

RECURSIVE validate(_)
\* the loop over cfg.Signal: the error of the first signal that fails
validate(signals) ==
  IF Len(signals) = 0 THEN "nil"
  ELSE IF signalError(Head(signals)) # "nil" THEN signalError(Head(signals))
  ELSE validate(Tail(signals))

\* cast.MapToStruct(props, cfg): fails on a property bag that does not decode
MapToStruct(props) == IF props.malformed THEN "read properties" ELSE "nil"

\* the error Configure returns for props, "nil" for none
ConfigureError(props) ==
  IF MapToStruct(props) # "nil" THEN MapToStruct(props)
  ELSE validate(props.Signal)

Props(signals) == [malformed |-> FALSE, Signal |-> signals]
Malformed == [malformed |-> TRUE, Signal |-> <<>>]

\* s.conf before the first successful Configure
NilConf == [isNil |-> TRUE, Signal |-> <<>>]

(***************************************************************************)
(* The source: state                                                       *)
(*                                                                         *)
(* Open may be called again once it has returned: the goroutines its       *)
(* earlier calls started go on, on the slot array of the latest call.  A   *)
(* goroutine is named <<g, j>>: started by the g-th call of Open in the    *)
(* iteration of signal j.                                                  *)
(***************************************************************************)
VARIABLES
  conf,       \* s.conf: NilConf, or the configuration stored by Configure
  call,       \* the last call the host made (Configure, Open, Close), or the
              \* call of randomize under test: its input and result
  opens,      \* the calls of Open made so far
  ranged,     \* per call of Open, the slice s.conf.Signal as line 58 evaluated
              \* it, once: the signals the call ranges over
  list,       \* s.list: the slots that are not nil, by index
  initial,    \* per goroutine name, the bytes Open made for the signal (line 66)
              \* and stored at line 71
  openPc,     \* where the latest Open is: idle, range (line 58), body (61),
              \* store (71), senderr (63), wait (120), returnedErr (64),
              \* returnedWarn (69), returned (121)
  openNs,     \* ns of line 66 in the latest Open
  k,          \* per call of Open, the loop variables k and v of line 58: v is
              \* the signal at index k of the slice ranged over
  perIter,    \* whether the build gives each iteration its own k and v
              \* (go >= 1.22), or one k and v shared by every closure
  done,       \* per call of Open, whether ctx.Done() is closed
  crashed,    \* NoCrash, or the panic that ended the process: its message,
              \* the goroutine that panicked and what it panicked on
  mutPc,      \* per goroutine of line 75: none, start (76), loop (80),
              \* read (82, reading v), store (92), senderr (84), done
  mutTicks,   \* per goroutine of line 75, the ticks of changeT taken
  mutFrom,    \* per goroutine of line 75 in its read of v at line 82, the k
              \* at which the read began; -1 outside the read
  mutErr,     \* per goroutine of line 75, the error it sends at line 84
  mutNs,      \* per goroutine of line 75, ns of line 87
  mutK,       \* per goroutine of line 75, the k it read at its last store
  emitPc,     \* per goroutine of line 100: none, loop (105), send (113), done
  emitK,      \* per goroutine of line 100, the k it read at its last tick
  pending,    \* per goroutine of line 100, the tuple being sent at line 113
  published,  \* per goroutine of line 100, the tuples the consumer received
  openErr,    \* the error the latest Open sends at line 63
  errs        \* the errors received from errCh, in order

vars == <<conf, call, opens, ranged, list, initial, openPc, openNs, k, perIter, done,
          crashed, mutPc, mutTicks, mutFrom, mutErr, mutNs, mutK, emitPc, emitK, pending,
          published, openErr, errs>>

openVars == <<opens, ranged, list, initial, openPc, openNs, k, done, crashed, mutPc,
              mutTicks, mutFrom, mutErr, mutNs, mutK, emitPc, emitK, pending, published,
              openErr, errs>>

NoCrash == [msg |-> "no", by |-> "", on |-> <<>>]
Crash(msg, by, on) == [msg |-> msg, by |-> by, on |-> on]

\* the process has not panicked
Running == crashed.msg = "no"

\* the names of the goroutines every call of Open so far has set up state for
Loops == DOMAIN emitPc

RECURSIVE Sum(_, _)
\* the sum of f over the set S of its arguments
Sum(f, S) ==
  IF S = {} THEN 0
  ELSE LET x == CHOOSE x \in S : TRUE IN f[x] + Sum(f, S \ {x})

\* the signal at index i of the slice the g-th call of Open ranges over
SignalAt(g, i) == ranged[g][i + 1]

Init ==
  /\ conf = NilConf
  /\ call = [fn |-> "none", in |-> <<>>, out |-> <<>>]
  /\ opens = 0
  /\ ranged = <<>>
  /\ list = <<>>
  /\ initial = <<>>
  /\ openPc = "idle"
  /\ openNs = NilBytes
  /\ k = <<>>
  /\ perIter \in BOOLEAN
  /\ done = <<>>
  /\ crashed = NoCrash
  /\ mutPc = <<>>
  /\ mutTicks = <<>>
  /\ mutFrom = <<>>
  /\ mutErr = <<>>
  /\ mutNs = <<>>
  /\ mutK = <<>>
  /\ emitPc = <<>>
  /\ emitK = <<>>
  /\ pending = <<>>
  /\ published = <<>>
  /\ openErr = "nil"
  /\ errs = <<>>

(***************************************************************************)
(* Configure                                                               *)
(***************************************************************************)
\* Configure with s.conf assigned before the validation loop
ConfigureStoresFirst(props) ==
  /\ Running
  /\ call' = [fn |-> "Configure", in |-> props, out |-> ConfigureError(props)]
  /\ conf' = IF MapToStruct(props) = "nil"
               THEN [isNil |-> FALSE, Signal |-> props.Signal]
               ELSE conf
  /\ UNCHANGED <<perIter>>
  /\ UNCHANGED openVars

\* lines 33-52, whenever the host calls it: cfg is a local until line 50
\* stores it in s.conf, which a call of Open reads once, at line 58
Configure(props) ==
  /\ Running
  /\ call' = [fn |-> "Configure", in |-> props, out |-> ConfigureError(props)]
  /\ conf' = IF ConfigureError(props) = "nil"
               THEN [isNil |-> FALSE, Signal |-> props.Signal]
               ELSE conf
  /\ UNCHANGED <<perIter>>
  /\ UNCHANGED openVars

(***************************************************************************)
(* What a goroutine reads and writes without synchronisation               *)
(*                                                                         *)
(* With one k and v for every closure, the goroutines read k and v while   *)
(* line 58 assigns them; the emission goroutines read a slot, a slice      *)
(* header of several words, while line 71 and line 92 store into it; and   *)
(* these two stores may be into the same slot.  A read that races with a   *)
(* write gives, word by word, what was there before or what is written: a  *)
(* write is pending for the readers from the moment its goroutine is at    *)
(* it.  Stores that race leave the words of either.                        *)
(***************************************************************************)
\* the slot at index i: nil when nothing was stored there
Slot(i) == IF i \in DOMAIN list THEN list[i] ELSE NilBytes

\* s.list[i] = ns
Store(l, i, ns) == [x \in DOMAIN l \cup {i} |-> IF x = i THEN ns ELSE l[x]]

\* the values of k the goroutine id can read: its own with a k and v per
\* iteration; with a shared k and v, the one of the call of Open that
\* started it, and the next one as well while that call is at line 58 with
\* a signal left
ReadK(id) ==
  IF perIter THEN {id[2]}
  ELSE IF id[1] = opens /\ openPc = "range" /\ k[id[1]] + 1 < Len(ranged[id[1]])
    THEN {k[id[1]], k[id[1]] + 1}
  ELSE {k[id[1]]}

\* the goroutines of line 75 that are at their store and may store into slot s
MutWriters(s) == {id \in Loops : mutPc[id] = "store" /\ s \in ReadK(id)}

\* the headers a read of slot s can give: the one stored, the ones being
\* stored, and the pointer of one of these with the length of another
ReadSlot(s) ==
  {Tear(p, l) : p, l \in {Slot(s)} \cup {mutNs[id] : id \in MutWriters(s)}
                           \cup (IF openPc = "store" /\ k[opens] = s
                                   THEN {openNs} ELSE {})}

(***************************************************************************)
(* Open                                                                    *)
(***************************************************************************)
\* lines 55-58: the slot array is allocated, slot 0 set to an empty slice and
\* the range expression s.conf.Signal evaluated, which panics when s.conf is
\* nil
OpenStart ==
  /\ Running
  /\ opens < MaxOpens
  /\ openPc \in {"idle", "returned", "returnedErr", "returnedWarn"}
  /\ opens' = opens + 1
  /\ ranged' = Append(ranged, conf.Signal)
  /\ call' = [fn |-> "Open", in |-> <<>>, out |-> <<>>]
  /\ list' = Store(<<>>, 0, EmptyBytes)
  /\ openPc' = "range"
  /\ openNs' = NilBytes
  /\ openErr' = "nil"
  /\ k' = Append(k, 0 - 1)
  /\ done' = Append(done, FALSE)
  /\ crashed' = IF conf.isNil
                  THEN Crash("nil pointer dereference", "Open", <<>>)
                  ELSE crashed
  /\ mutPc' = mutPc @@ [id \in {opens + 1} \X (0 .. Len(conf.Signal) - 1) |-> "none"]
  /\ mutTicks' = mutTicks @@ [id \in {opens + 1} \X (0 .. Len(conf.Signal) - 1) |-> 0]
  /\ mutFrom' = mutFrom @@ [id \in {opens + 1} \X (0 .. Len(conf.Signal) - 1) |-> 0 - 1]
  /\ mutErr' = mutErr @@ [id \in {opens + 1} \X (0 .. Len(conf.Signal) - 1) |-> "nil"]
  /\ mutNs' = mutNs @@ [id \in {opens + 1} \X (0 .. Len(conf.Signal) - 1) |-> NilBytes]
  /\ mutK' = mutK @@ [id \in {opens + 1} \X (0 .. Len(conf.Signal) - 1) |-> 0 - 1]
  /\ emitPc' = emitPc @@ [id \in {opens + 1} \X (0 .. Len(conf.Signal) - 1) |-> "none"]
  /\ emitK' = emitK @@ [id \in {opens + 1} \X (0 .. Len(conf.Signal) - 1) |-> 0 - 1]
  /\ pending' = pending @@ [id \in {opens + 1} \X (0 .. Len(conf.Signal) - 1) |-> {}]
  /\ published' = published @@ [id \in {opens + 1} \X (0 .. Len(conf.Signal) - 1) |-> <<>>]
  /\ UNCHANGED <<conf, initial, perIter, errs>>

\* line 58: the range clause assigns the next k and v, or the loop ends
OpenRange ==
  /\ Running
  /\ openPc = "range"
  /\ IF k[opens] + 1 < Len(ranged[opens])
       THEN k' = [k EXCEPT ![opens] = @ + 1] /\ openPc' = "body"
       ELSE k' = k /\ openPc' = "wait"
  /\ UNCHANGED <<conf, call, opens, ranged, list, initial, openNs, perIter, done, crashed,
                 mutPc, mutTicks, mutFrom, mutErr, mutNs, mutK, emitPc, emitK, pending,
                 published, openErr, errs>>

\* the arguments of a call of randomize
Args(v) == <<v.Name, v.DataType, v.MinValuePhy, v.MaxValuePhy>>

\* what a read of a string header finds when its pointer is nil and its
\* length positive: the read of the first byte faults
UnreadableString == "(unreadable)"
UnreadableBytes == <<0 - 1>>

\* the texts of a string header with the pointer of the text p and the
\* length n: the first n bytes of p, or p and the bytes that follow it in
\* memory, here a run of the bytes in unit; the pointer of an empty p may be
\* nil, and then the text is the unreadable one
RECURSIVE TearText(_, _, _, _)
TearText(p, n, unit, unreadable) ==
  IF n <= Len(p) THEN {SubSeq(p, 1, n)}
  ELSE UNION {TearText(p \o u, n, unit, unreadable) : u \in unit}
         \cup (IF Len(p) = 0 THEN {unreadable} ELSE {})

\* randomize(v.Name, v.DataType, v.MinValuePhy, v.MaxValuePhy) as lines 61 and
\* 82 call it, r being what randomize returns on the fields that can be
\* read.  The process panics at the first argument randomize reads whose
\* bytes cannot be read: dataType in the switch, minValuePhy and then
\* maxValuePhy when they are parsed, and name, the key of the map, once a
\* value is drawn.  Where a bound is unreadable, randomize is followed up to
\* the read of it: with "0" for minValuePhy and with the text of
\* minValuePhy, which has parsed by then, for maxValuePhy
randomizeSignal(v, rnd) ==
  CHOOSE out \in
    {IF v.DataType = UnreadableString THEN RandPanic("nil pointer dereference")
     ELSE IF r.status = "err" /\ r.val = "unkonw data type" THEN r
     ELSE IF v.MinValuePhy = UnreadableBytes THEN RandPanic("nil pointer dereference")
     ELSE IF v.MaxValuePhy = UnreadableBytes
       THEN (IF r.status = "err" THEN r ELSE RandPanic("nil pointer dereference"))
     ELSE IF v.Name = UnreadableString /\ r.status = "ok"
       THEN RandPanic("nil pointer dereference")
     ELSE r :
       r \in {randomize(v.Name, v.DataType, b[1], b[2], rnd) :
                b \in {<<IF v.MinValuePhy = UnreadableBytes THEN <<48>>
                          ELSE v.MinValuePhy,
                         IF v.MaxValuePhy # UnreadableBytes THEN v.MaxValuePhy
                          ELSE IF v.MinValuePhy = UnreadableBytes THEN <<48>>
                          ELSE v.MinValuePhy>>}}} : TRUE

\* lines 66-70 for signal k: ns, err := json.Marshal(next)
OpenMarshal(ns) ==
  IF ns.err # "nil" THEN
    /\ openPc' = "returnedWarn"
    /\ UNCHANGED <<openNs>>
  ELSE
    /\ openNs' = ns.bytes
    /\ openPc' = "store"

\* OpenIteration with the emission goroutine started before the error is
\* looked at
OpenIterationStartsFirst(v, next) ==
  IF next.status = "panic" THEN
    /\ crashed' = Crash(next.val, "Open", Args(v))
    /\ UNCHANGED <<openPc, openNs, openErr, emitPc>>
  ELSE IF next.status = "err" THEN
    /\ openErr' = next.val
    /\ openPc' = "senderr"
    /\ emitPc' = [emitPc EXCEPT ![<<opens, k[opens]>>] = "loop"]
    /\ UNCHANGED <<crashed, openNs>>
  ELSE OpenMarshal(Marshal(next)) /\ UNCHANGED <<crashed, openErr, emitPc>>

\* lines 61-70 for signal k: next, err := randomize(...) and what follows
OpenIteration(v, next) ==
  IF next.status = "panic" THEN
    /\ crashed' = Crash(next.val, "Open", Args(v))
    /\ UNCHANGED <<openPc, openNs, openErr, emitPc>>
  ELSE IF next.status = "err" THEN
    /\ openErr' = next.val
    /\ openPc' = "senderr"
    /\ UNCHANGED <<crashed, openNs, emitPc>>
  ELSE OpenMarshal(Marshal(next)) /\ UNCHANGED <<crashed, openErr, emitPc>>

\* lines 59-70: the iteration for signal k up to the store, with rnd what
\* math/rand draws
OpenBody(rnd) ==
  /\ Running
  /\ openPc = "body"
  /\ \E next \in {randomizeSignal(SignalAt(opens, k[opens]), rnd)} :
       OpenIteration(SignalAt(opens, k[opens]), next)
  /\ UNCHANGED <<conf, call, opens, ranged, list, initial, k, perIter, done, mutPc,
                 mutTicks, mutFrom, mutErr, mutNs, mutK, emitK, pending, published, errs>>

\* stores into slot s that overlap land together and leave the header b:
\* those of line 92 in the goroutines W and, when withOpen, the one of line
\* 71, after which Open starts the goroutines of signal s (lines 74-118)
Land(s, b, W, withOpen) ==
  /\ list' = Store(list, s, b)
  /\ mutK' = [id \in DOMAIN mutK |-> IF id \in W THEN s ELSE mutK[id]]
  /\ mutPc' = [id \in DOMAIN mutPc |->
                 IF id \in W THEN "loop"
                 ELSE IF withOpen /\ id = <<opens, s>> /\ SignalAt(opens, s).ChangeTime # 0
                   THEN "start"
                 ELSE mutPc[id]]
  /\ emitPc' = IF withOpen THEN [emitPc EXCEPT ![<<opens, s>>] = "loop"] ELSE emitPc
  /\ initial' = IF withOpen THEN Store(initial, <<opens, s>>, openNs) ELSE initial
  /\ openPc' = IF withOpen THEN "range" ELSE openPc

\* lines 71-118 for signal k: s.list[k] = ns, which panics on an index out
\* of range, and the two go statements
OpenStore ==
  /\ Running
  /\ openPc = "store"
  /\ IF k[opens] >= ListCap
       THEN /\ crashed' = Crash("index out of range", "Open", <<k[opens]>>)
            /\ UNCHANGED <<list, initial, openPc, mutPc, mutK, emitPc>>
       ELSE /\ \E W \in SUBSET MutWriters(k[opens]) :
                 \E p, l \in {openNs} \cup {mutNs[id] : id \in W} :
                   Land(k[opens], Tear(p, l), W, TRUE)
            /\ UNCHANGED crashed
  /\ UNCHANGED <<conf, call, opens, ranged, openNs, k, perIter, done, mutTicks, mutFrom, mutErr,
                 mutNs, emitK, pending, published, openErr, errs>>

\* line 63 completes: the host receives the error and Open returns (line 64)
OpenErrReceived ==
  /\ Running
  /\ openPc = "senderr"
  /\ errs' = Append(errs, [from |-> "Open", id |-> <<opens, k[opens]>>, err |-> openErr])
  /\ openPc' = "returnedErr"
  /\ UNCHANGED <<conf, call, opens, ranged, list, initial, openNs, k, perIter, done,
                 crashed, mutPc, mutTicks, mutFrom, mutErr, mutNs, mutK, emitPc, emitK,
                 pending, published, openErr>>

\* line 120: Open returns once ctx is done
OpenWait ==
  /\ Running
  /\ openPc = "wait"
  /\ done[opens]
  /\ openPc' = "returned"
  /\ UNCHANGED <<conf, call, opens, ranged, list, initial, openNs, k, perIter, done,
                 crashed, mutPc, mutTicks, mutFrom, mutErr, mutNs, mutK, emitPc, emitK,
                 pending, published, openErr, errs>>

\* the host cancels the context it gave to the g-th call of Open
Shutdown(g) ==
  /\ Running
  /\ ~done[g]
  /\ done' = [done EXCEPT ![g] = TRUE]
  /\ UNCHANGED <<conf, call, opens, ranged, list, initial, openPc, openNs, k, perIter,
                 crashed, mutPc, mutTicks, mutFrom, mutErr, mutNs, mutK, emitPc, emitK,
                 pending, published, openErr, errs>>

(***************************************************************************)
(* The goroutines Open starts for a signal                                 *)
(***************************************************************************)
\* line 76: time.NewTicker(v.ChangeTime) panics on a non-positive duration
MutStart(id) ==
  /\ Running
  /\ mutPc[id] = "start"
  /\ \E v \in {SignalAt(id[1], i) : i \in ReadK(id)} :
       IF v.ChangeTime <= 0
         THEN /\ crashed' = Crash("non-positive interval for NewTicker", "mutation",
                                  <<v.ChangeTime>>)
              /\ UNCHANGED mutPc
         ELSE /\ mutPc' = [mutPc EXCEPT ![id] = "loop"]
              /\ UNCHANGED crashed
  /\ UNCHANGED <<conf, call, opens, ranged, list, initial, openPc, openNs, k, perIter,
                 done, mutTicks, mutFrom, mutErr, mutNs, mutK, emitPc, emitK, pending,
                 published, openErr, errs>>

\* lines 87-91 in the goroutine id: ns, err := json.Marshal(next)
MutMarshal(id, ns) ==
  IF ns.err # "nil" THEN
    /\ mutPc' = [mutPc EXCEPT ![id] = "done"]
    /\ UNCHANGED <<mutNs>>
  ELSE
    /\ mutNs' = [mutNs EXCEPT ![id] = ns.bytes]
    /\ mutPc' = [mutPc EXCEPT ![id] = "store"]

\* MutIteration with the slot dropped when randomize fails
MutIterationDropsSlot(id, v, next, ns) ==
  IF next.status = "panic" THEN
    /\ crashed' = Crash(next.val, "mutation", Args(v))
    /\ UNCHANGED <<list, mutPc, mutErr, mutNs>>
  ELSE IF next.status = "err" THEN
    /\ mutErr' = [mutErr EXCEPT ![id] = next.val]
    /\ mutPc' = [mutPc EXCEPT ![id] = "senderr"]
    /\ list' = Store(list, id[2], NilBytes)
    /\ UNCHANGED <<crashed, mutNs>>
  ELSE MutMarshal(id, ns) /\ UNCHANGED <<list, crashed, mutErr>>

\* lines 82-91 in the goroutine id, with v what it read from v, next what
\* randomize returned and ns what json.Marshal made of next
MutIteration(id, v, next, ns) ==
  IF next.status = "panic" THEN
    /\ crashed' = Crash(next.val, "mutation", Args(v))
    /\ UNCHANGED <<list, mutPc, mutErr, mutNs>>
  ELSE IF next.status = "err" THEN
    /\ mutErr' = [mutErr EXCEPT ![id] = next.val]
    /\ mutPc' = [mutPc EXCEPT ![id] = "senderr"]
    /\ UNCHANGED <<list, crashed, mutNs>>
  ELSE MutMarshal(id, ns) /\ UNCHANGED <<list, crashed, mutErr>>

\* how many ticks of the changeT tickers, from the first, are followed with
\* the fields of v read one by one
MaxTornReads == 1

\* the tick the goroutine id takes now reads the fields of v one by one,
\* with steps of Open between them: the closures share one v, which line 58
\* can still assign, the call of Open that started id having a signal left
\* to range over
ReadsTorn(id) ==
  /\ ~perIter
  /\ id[1] = opens
  /\ openPc \in {"range", "body", "store"}
  /\ k[opens] + 1 < Len(ranged[opens])
  /\ Sum(mutTicks, DOMAIN mutTicks) < MaxTornReads

\* line 81 and the start of line 82: a tick of changeT is taken and the
\* read of the fields of v begins while line 58 can still assign v
MutBegin(id) ==
  /\ Running
  /\ mutPc[id] = "loop"
  /\ ReadsTorn(id)
  /\ Sum(mutTicks, DOMAIN mutTicks) < MaxChanges
  /\ mutTicks' = [mutTicks EXCEPT ![id] = @ + 1]
  /\ mutPc' = [mutPc EXCEPT ![id] = "read"]
  /\ mutFrom' = [mutFrom EXCEPT ![id] = k[id[1]]]
  /\ UNCHANGED <<conf, call, opens, ranged, list, initial, openPc, openNs, k,
                 perIter, done, crashed, mutErr, mutNs, mutK, emitPc, emitK,
                 pending, published, openErr, errs>>

\* lines 81-91: a tick of changeT up to the store with v read in one step, or
\* lines 82-91 once the read of v that began earlier ends
MutStep(id, v, next, ns) ==
  /\ Running
  /\ \/ /\ mutPc[id] = "loop"
        /\ ~ReadsTorn(id)
        /\ Sum(mutTicks, DOMAIN mutTicks) < MaxChanges
        /\ mutTicks' = [mutTicks EXCEPT ![id] = @ + 1]
     \/ /\ mutPc[id] = "read"
        /\ mutTicks' = mutTicks
  /\ mutFrom' = [mutFrom EXCEPT ![id] = 0 - 1]
  /\ MutIteration(id, v, next, ns)
  /\ UNCHANGED <<conf, call, opens, ranged, initial, openPc, openNs, k, perIter,
                 done, mutK, emitPc, emitK, pending, published, openErr, errs>>

\* line 87: json.Marshal(next), reached with a result of randomize only
MarshalNext(next) ==
  IF next.status = "ok" THEN Marshal(next) ELSE [err |-> "nil", bytes |-> NilBytes]

\* what line 82 can read from v, the four strings word by word: with a v
\* line 58 does not assign meanwhile, the fields of that signal; else, of
\* each string, the pointer of that field in one of the signals v held since
\* the read began and the length of that field in one of them
TornV(id) ==
  LET S == IF mutPc[id] = "read"
             THEN {SignalAt(id[1], i) :
                     i \in {j \in mutFrom[id] .. Len(ranged[id[1]]) - 1 :
                              \E x \in ReadK(id) : j <= x}}
             ELSE {SignalAt(id[1], i) : i \in ReadK(id)}
      TornS(f) == UNION {TearText(p[f], Len(l[f]), {"0", "x"}, UnreadableString) :
                          p, l \in S}
      TornB(f) == UNION {TearText(p[f], Len(l[f]), {<<48>>, <<120>>}, UnreadableBytes) :
                           p, l \in S}
  IN  IF mutPc[id] = "read"
        THEN [Name : TornS("Name"), DataType : TornS("DataType"),
              MinValuePhy : TornB("MinValuePhy"), MaxValuePhy : TornB("MaxValuePhy")]
        ELSE {[Name |-> x.Name, DataType |-> x.DataType, MinValuePhy |-> x.MinValuePhy,
               MaxValuePhy |-> x.MaxValuePhy] : x \in S}

\* lines 81-91: a tick of changeT, with rnd what math/rand draws
MutTick(id, rnd) ==
  /\ Running
  /\ \/ mutPc[id] = "loop" /\ Sum(mutTicks, DOMAIN mutTicks) < MaxChanges
     \/ mutPc[id] = "read"
  /\ IF mutPc[id] = "loop" /\ ReadsTorn(id)
       THEN MutBegin(id)
       ELSE \E v \in TornV(id) :
              \E next \in {randomizeSignal(v, rnd)} :
                \E ns \in {MarshalNext(next)} : MutStep(id, v, next, ns)

\* line 92: s.list[k] = ns, which panics on an index out of range
MutStore(id) ==
  /\ Running
  /\ mutPc[id] = "store"
  /\ \E s \in ReadK(id) :
       IF s >= ListCap
         THEN /\ crashed' = Crash("index out of range", "mutation", <<s>>)
              /\ UNCHANGED <<list, initial, openPc, mutPc, mutK, emitPc>>
         ELSE /\ \E W \in SUBSET (MutWriters(s) \ {id}) :
                   \E p, l \in {mutNs[x] : x \in W \cup {id}} :
                     Land(s, Tear(p, l), W \cup {id}, FALSE)
              /\ UNCHANGED crashed
  /\ UNCHANGED <<conf, call, opens, ranged, openNs, k, perIter, done, mutTicks, mutFrom, mutErr,
                 mutNs, emitK, pending, published, openErr, errs>>

\* line 84 completes: the host receives the error and the goroutine returns
MutErrReceived(id) ==
  /\ Running
  /\ mutPc[id] = "senderr"
  /\ errs' = Append(errs, [from |-> "mutation", id |-> id, err |-> mutErr[id]])
  /\ mutPc' = [mutPc EXCEPT ![id] = "done"]
  /\ UNCHANGED <<conf, call, opens, ranged, list, initial, openPc, openNs, k, perIter,
                 done, crashed, mutTicks, mutFrom, mutErr, mutNs, mutK, emitPc, emitK,
                 pending, published, openErr>>

\* lines 93-94
MutDone(id) ==
  /\ Running
  /\ mutPc[id] = "loop"
  /\ done[id[1]]
  /\ mutPc' = [mutPc EXCEPT ![id] = "done"]
  /\ UNCHANGED <<conf, call, opens, ranged, list, initial, openPc, openNs, k, perIter,
                 done, crashed, mutTicks, mutFrom, mutErr, mutNs, mutK, emitPc, emitK,
                 pending, published, openErr, errs>>

\* the ticks of cyclicT the emission goroutines have taken
EmitTicksTaken ==
  Sum([id \in Loops |-> Len(published[id]) + (IF emitPc[id] = "send" THEN 1 ELSE 0)],
      Loops)

\* what lines 107-108 make of slot s: the index is out of range, or one of
\* the headers a read can give is decoded
Decoded(s) ==
  IF s >= ListCap THEN {[err |-> "index out of range", next |-> {}]}
  ELSE {Unmarshal(b) : b \in ReadSlot(s)}

\* lines 106-112 with dec what came of slot s: a failed decode is logged and
\* the tuple, an empty map, is sent all the same
EmitDecode(id, s, dec) ==
  IF dec.err \in {"index out of range", "nil pointer dereference"}
    THEN /\ crashed' = Crash(dec.err, "emission", <<s>>)
         /\ UNCHANGED <<emitPc, emitK, pending>>
    ELSE /\ pending' = [pending EXCEPT ![id] = dec.next]
         /\ emitPc' = [emitPc EXCEPT ![id] = "send"]
         /\ emitK' = [emitK EXCEPT ![id] = s]
         /\ UNCHANGED crashed

\* EmitStep with the send of line 113 held under one lock shared by the loops
EmitStepSerialized(id, s, dec) ==
  /\ Running
  /\ emitPc[id] = "loop"
  /\ EmitTicksTaken < MaxTicks
  /\ \A i \in Loops : emitPc[i] # "send"
  /\ EmitDecode(id, s, dec)
  /\ UNCHANGED <<conf, call, opens, ranged, list, initial, openPc, openNs, k, perIter,
                 done, mutPc, mutTicks, mutFrom, mutErr, mutNs, mutK, published, openErr,
                 errs>>

\* lines 105-113, up to the send, with s the k read and dec what came of
\* slot s
EmitStep(id, s, dec) ==
  /\ Running
  /\ emitPc[id] = "loop"
  /\ EmitTicksTaken < MaxTicks
  /\ EmitDecode(id, s, dec)
  /\ UNCHANGED <<conf, call, opens, ranged, list, initial, openPc, openNs, k, perIter,
                 done, mutPc, mutTicks, mutFrom, mutErr, mutNs, mutK, published, openErr,
                 errs>>

\* lines 105-113, up to the send: a tick of cyclicT
EmitTick(id) ==
  /\ emitPc[id] = "loop"
  /\ \E s \in ReadK(id) : \E dec \in Decoded(s) : EmitStep(id, s, dec)

\* line 113 completes: the consumer receives the tuple
Receive(id) ==
  /\ Running
  /\ emitPc[id] = "send"
  /\ published' = [published EXCEPT ![id] = Append(@, pending[id])]
  /\ pending' = [pending EXCEPT ![id] = {}]
  /\ emitPc' = [emitPc EXCEPT ![id] = "loop"]
  /\ UNCHANGED <<conf, call, opens, ranged, list, initial, openPc, openNs, k, perIter,
                 done, crashed, mutPc, mutTicks, mutFrom, mutErr, mutNs, mutK, emitK,
                 openErr, errs>>

\* lines 114-115
EmitDone(id) ==
  /\ Running
  /\ emitPc[id] = "loop"
  /\ done[id[1]]
  /\ emitPc' = [emitPc EXCEPT ![id] = "done"]
  /\ UNCHANGED <<conf, call, opens, ranged, list, initial, openPc, openNs, k, perIter,
                 done, crashed, mutPc, mutTicks, mutFrom, mutErr, mutNs, mutK, emitK,
                 pending, published, openErr, errs>>

(***************************************************************************)
(* Close                                                                   *)
(***************************************************************************)
\* Close that also drops the slot array
CloseClearsSlots ==
  /\ Running
  /\ call' = [fn |-> "Close", in |-> <<>>, out |-> "nil"]
  /\ list' = <<>>
  /\ UNCHANGED <<conf, opens, ranged, initial, openPc, openNs, k, perIter, done, crashed,
                 mutPc, mutTicks, mutFrom, mutErr, mutNs, mutK, emitPc, emitK, pending,
                 published, openErr, errs>>

\* lines 198-200: Close returns nil and touches nothing, whenever it is called
Close ==
  /\ Running
  /\ call' = [fn |-> "Close", in |-> <<>>, out |-> "nil"]
  /\ UNCHANGED <<conf, perIter>>
  /\ UNCHANGED openVars

(***************************************************************************)
(* Inputs                                                                  *)
(***************************************************************************)
\* "Speed": a value fixed after initialisation, in [0, 3)
Speed == canSignal("Speed", "int32", Text(FALSE, <<0>>), Text(FALSE, <<3>>), 1000, 0)
\* "Temp": a value replaced every 2 s, in [-10, 40)
Temp == canSignal("Temp", "float64", Text(TRUE, <<1, 0>>), Text(FALSE, <<4, 0>>), 500, 2000)
\* "Rpm": a value replaced every 100 ms, in [7, 9)
Rpm == canSignal("Rpm", "uint32", Text(FALSE, <<7>>), Text(FALSE, <<9>>), 200, 100)
\* an unknown data type
Bad == canSignal("Bad", "unknown_type", Text(TRUE, <<1, 0>>), Text(FALSE, <<4, 0>>), 1000, 0)
\* a bound that does not parse in the type: "-1" as a uint32
Neg1 == canSignal("Neg1", "uint32", Text(TRUE, <<1>>), Text(FALSE, <<5>>), 1000, 0)
\* min = max = "7"; a name as long as that of Rpm
Cog == canSignal("Cog", "uint32", Text(FALSE, <<7>>), Text(FALSE, <<7>>), 1000, 2000)
\* min "10", max "9": max < min as numbers, not as strings
Rev == canSignal("Rev", "int64", Text(FALSE, <<1, 0>>), Text(FALSE, <<9>>), 1000, 0)
\* min "9", max "10": min < max as numbers, max < min as strings
Fwd == canSignal("Fwd", "int64", Text(FALSE, <<9>>), Text(FALSE, <<1, 0>>), 1000, 0)
\* bounds "NaN"
Ratio == canSignal("Ratio", "float64", <<78, 97, 78>>, <<78, 97, 78>>, 1000, 0)
\* cyclicTime 0, cyclicTime -5, changeTime -1
Cyc0 == canSignal("Cyc0", "int32", Text(FALSE, <<0>>), Text(FALSE, <<3>>), 0, 0)
CycNeg == canSignal("CycNeg", "int32", Text(FALSE, <<0>>), Text(FALSE, <<3>>), 0 - 5, 100)
ChgNeg == canSignal("ChgNeg", "int32", Text(FALSE, <<0>>), Text(FALSE, <<3>>), 1000, 0 - 1)

\* the property bags the host configures the source with before it opens it
LifecyclePool ==
  { Props(<<>>), Props(<<Speed>>), Props(<<Temp>>), Props(<<Speed, Temp>>),
    Props(<<Temp, Bad>>), Props(<<Rpm, Cog>>),
    Props(<<Rev>>), Props(<<Ratio>>), Props(<<Neg1>>),
    Props(<<Cyc0>>), Props(<<Speed, ChgNeg>>), Props(<<Fwd>>), Malformed }

\* how many of the property bags of LaterBags the host is followed with when
\* it calls Configure after a call of Open
MaxLaterBags == 2

\* property bags of a call of Configure after a call of Open: one that
\* Configure stores, one it refuses
LaterBags == <<Props(<<Speed>>), Malformed>>

\* the property bags of a call of Configure: those of pool before the first
\* call of Open; after it, in any state, while Open runs and once it has
\* returned, the first MaxLaterBags of LaterBags
HostPool(pool) ==
  IF opens = 0 THEN pool
  ELSE {LaterBags[i] : i \in {j \in 1 .. MaxLaterBags : j <= Len(LaterBags)}}

\* of the draws, how many from each end of the range are followed where the
\* goroutines run beside the call
MaxRunDraw == 1
RunDraws == {rnd \in Draws : rnd[2] < MaxRunDraw}

(***************************************************************************)
(* The source through its lifecycle                                        *)
(***************************************************************************)
\* a step of Open, of one of its goroutines, or of the host around them
Run ==
  \/ OpenStart
  \/ OpenRange
  \/ \E rnd \in RunDraws : OpenBody(rnd)
  \/ OpenStore
  \/ OpenErrReceived
  \/ OpenWait
  \/ \E g \in 1 .. opens : Shutdown(g)
  \/ \E id \in Loops : MutStart(id)
  \/ \E id \in Loops, rnd \in RunDraws : MutTick(id, rnd)
  \/ \E id \in Loops : MutStore(id)
  \/ \E id \in Loops : MutErrReceived(id)
  \/ \E id \in Loops : MutDone(id)
  \/ \E id \in Loops : EmitTick(id)
  \/ \E id \in Loops : Receive(id)
  \/ \E id \in Loops : EmitDone(id)
  \/ Close

Next ==
  \/ \E props \in HostPool(LifecyclePool) : Configure(props)
  \/ Run

Spec == Init /\ [][Next]_vars

(***************************************************************************)
(* The source under the scheduling of the Go runtime: a goroutine that can *)
(* take a step takes it.  Nothing is assumed of the host: the consumer of  *)
(* the tuples and the reader of errCh may stop receiving, and the context  *)
(* may never be cancelled.                                                 *)
(***************************************************************************)
LivePool ==
  { Props(<<Speed>>), Props(<<Temp>>), Props(<<Ratio>>), Props(<<Temp, Bad>>),
    Props(<<Cyc0>>) }

NextLive ==
  \/ \E props \in HostPool(LivePool) : Configure(props)
  \/ Run

Fairness ==
  /\ WF_vars(OpenRange)
  /\ []<>~(Running /\ openPc = "body")
  /\ WF_vars(OpenWait)
  /\ WF_vars(OpenStore)
  /\ \A id \in (1 .. MaxOpens) \X (0 .. 1) : WF_vars(id \in Loops /\ MutStart(id))
  /\ \A id \in (1 .. MaxOpens) \X (0 .. 1) :
       []<>~(Running /\ id \in Loops /\ mutPc[id] = "read")
  /\ \A id \in (1 .. MaxOpens) \X (0 .. 1) : WF_vars(id \in Loops /\ MutStore(id))
  /\ \A id \in (1 .. MaxOpens) \X (0 .. 1) : WF_vars(id \in Loops /\ MutDone(id))
  /\ \A id \in (1 .. MaxOpens) \X (0 .. 1) : WF_vars(id \in Loops /\ EmitDone(id))

FairSpec == Init /\ [][NextLive]_vars /\ Fairness

(***************************************************************************)
(* The startup of Open on configurations as long as the slot array         *)
(***************************************************************************)
\* configurations of ListCap and of ListCap + 1 signals whose range holds
\* one value
CapacityPool ==
  { Props([i \in 1 .. n |-> canSignal("Bit", "int32", <<48>>, <<49>>, 1000, 0)]) :
      n \in {ListCap, ListCap + 1} }

\* Configure and the iteration of Open, before any goroutine is scheduled
NextCapacity ==
  \/ \E props \in HostPool(CapacityPool) : Configure(props)
  \/ OpenStart
  \/ OpenRange
  \/ \E rnd \in RunDraws : OpenBody(rnd)
  \/ OpenStore
  \/ OpenWait
  \/ \E g \in 1 .. opens : Shutdown(g)

SpecCapacity == Init /\ [][NextCapacity]_vars

(***************************************************************************)
(* Configure alone, on any sequence of property bags                       *)
(***************************************************************************)
SignalPool == {Speed, Temp, Rpm, Bad, Neg1, Cog, Rev, Fwd, Ratio, Cyc0, CycNeg, ChgNeg}

ConfigurePool ==
  {Malformed, Props(<<>>)}
    \cup {Props(<<a>>) : a \in SignalPool}
    \cup {Props(<<a, b>>) : a \in SignalPool, b \in SignalPool}

NextConfigure == \E props \in ConfigurePool : Configure(props)

SpecConfigure == Init /\ [][NextConfigure]_vars

(***************************************************************************)
(* randomize alone, on any data type and bounds                            *)
(***************************************************************************)
BoundPool ==
  { Text(FALSE, <<0>>), Text(FALSE, <<5>>), Text(FALSE, <<9>>), Text(FALSE, <<1, 0>>),
    Text(TRUE, <<1>>), Text(FALSE, <<0, 7>>), <<43, 53>>, <<120>>, <<>>,
    <<49, 46, 53>>, <<78, 97, 78>>, <<45, 73, 110, 102>>,
    Text(FALSE, <<2,1,4,7,4,8,3,6,4,7>>), Text(TRUE, <<2,1,4,7,4,8,3,6,4,8>>),
    Text(FALSE, <<2,1,4,7,4,8,3,6,4,8>>), Text(FALSE, <<4,2,9,4,9,6,7,2,9,5>>),
    Text(FALSE, <<9,2,2,3,3,7,2,0,3,6,8,5,4,7,7,5,8,0,7>>),
    Text(TRUE, <<9,2,2,3,3,7,2,0,3,6,8,5,4,7,7,5,8,0,8>>),
    Text(FALSE, <<1,8,4,4,6,7,4,4,0,7,3,7,0,9,5,5,1,6,1,5>>) }

\* a call of randomize about to be made
InitRandomize ==
  /\ \E dataType \in {"int32", "sint32", "int64", "uint32", "uint64", "float",
                       "float32", "double", "float64", "unknown_type"},
        minValuePhy \in BoundPool, maxValuePhy \in BoundPool, rnd \in Draws :
       call = [fn |-> "randomize",
               in |-> [name |-> "sig", dataType |-> dataType,
                       minValuePhy |-> minValuePhy, maxValuePhy |-> maxValuePhy,
                       rnd |-> rnd],
               out |-> [status |-> "pending", name |-> "", type |-> "", val |-> ""]]
  /\ conf = NilConf
  /\ opens = 0
  /\ ranged = <<>>
  /\ list = <<>>
  /\ initial = <<>>
  /\ openPc = "idle"
  /\ openNs = NilBytes
  /\ k = <<>>
  /\ perIter = FALSE
  /\ done = <<>>
  /\ crashed = NoCrash
  /\ mutPc = <<>>
  /\ mutTicks = <<>>
  /\ mutFrom = <<>>
  /\ mutErr = <<>>
  /\ mutNs = <<>>
  /\ mutK = <<>>
  /\ emitPc = <<>>
  /\ emitK = <<>>
  /\ pending = <<>>
  /\ published = <<>>
  /\ openErr = "nil"
  /\ errs = <<>>

\* the call is made
RandomizeCall ==
  /\ call.fn = "randomize"
  /\ call.out.status = "pending"
  /\ call' = [call EXCEPT !.out = randomize(call.in.name, call.in.dataType,
                                            call.in.minValuePhy, call.in.maxValuePhy,
                                            call.in.rnd)]
  /\ UNCHANGED <<conf, perIter>>
  /\ UNCHANGED openVars

NextRandomize == RandomizeCall

SpecRandomize == InitRandomize /\ [][NextRandomize]_vars

(***************************************************************************)
(* Properties                                                              *)
(***************************************************************************)

\* the bound s parsed as randomize parses it for the data type
ParseBound(dataType, s) ==
  CASE dataType \in {"int32", "sint32"} -> ParseInt(s, 32)
    [] dataType = "int64" -> ParseInt(s, 64)
    [] dataType = "uint32" -> ParseUint(s, 32)
    [] dataType = "uint64" -> ParseUint(s, 64)
    [] dataType \in {"float", "float32"} -> ParseFloat(s, 32)
    [] dataType \in {"double", "float64"} -> ParseFloat(s, 64)

\* both bounds of the integer-typed signal parse
IntegerBoundsParse(dataType, min, max) ==
  /\ dataType \in {"int32", "sint32", "int64", "uint32", "uint64"}
  /\ ParseBound(dataType, min).err = "nil"
  /\ ParseBound(dataType, max).err = "nil"

\* both bounds of the float-typed signal parse: strconv.ParseFloat returns
\* no error, for the infinities and NaN as well
FloatBoundsParse(dataType, min, max) ==
  /\ dataType \in {"float", "float32", "double", "float64"}
  /\ ParseBound(dataType, min).err = "nil"
  /\ ParseBound(dataType, max).err = "nil"

\* max < min as values of the declared type: as the integers or as the
\* floats randomize parses the bounds to.  Of floats, NaN is less than
\* nothing and nothing is less than NaN, -Inf is less than everything else,
\* everything else is less than +Inf, and -0 is not less than 0
Reversed(v) ==
  \/ /\ IntegerBoundsParse(v.DataType, v.MinValuePhy, v.MaxValuePhy)
     /\ NumLt(ParseBound(v.DataType, v.MaxValuePhy).val,
              ParseBound(v.DataType, v.MinValuePhy).val)
  \/ /\ FloatBoundsParse(v.DataType, v.MinValuePhy, v.MaxValuePhy)
     /\ \E max \in {ParseBound(v.DataType, v.MaxValuePhy).val} :
          \E min \in {ParseBound(v.DataType, v.MinValuePhy).val} :
            IF max.kind = "nan" \/ min.kind = "nan" THEN FALSE
            ELSE IF max.kind = "inf" THEN max.neg /\ ~(min.kind = "inf" /\ min.neg)
            ELSE IF min.kind = "inf" THEN ~min.neg
            ELSE /\ FinAdd(max, FloatNeg(min)).neg
                 /\ FinAdd(max, FloatNeg(min)).mag # <<0>>

\* an integer-typed signal whose bounds are the same number
ZeroWidth(v) ==
  /\ IntegerBoundsParse(v.DataType, v.MinValuePhy, v.MaxValuePhy)
  /\ ParseBound(v.DataType, v.MaxValuePhy).val = ParseBound(v.DataType, v.MinValuePhy).val

BadTiming(v) == v.CyclicTime <= 0 \/ v.ChangeTime < 0

\* the errors the host received from the latest Open
OpenErrors == SelectSeq(errs, LAMBDA e : e.from = "Open" /\ e.id[1] = opens)

\* the mutation goroutine id met a randomize error, sent it and returned
MutFailed(id) == mutPc[id] = "done" /\ mutErr[id] # "nil"

\* randomize has returned without error for every signal the latest Open
\* ranges over
AllRandomized ==
  /\ opens > 0
  /\ Running \/ crashed.msg = "index out of range"
  /\ k[opens] + 1 = Len(ranged[opens])
  /\ openPc \in {"store", "range", "wait", "returned", "returnedWarn"}


\* C1: once the shutdown signal of a call of Open has fired, every mutation
\* loop and every emission loop that call started terminates (or the process
\* is gone), whatever the consumer of the tuples and the reader of the error
\* channel do.
C1_LoopsEndAfterShutdown ==
  \A g \in 1 .. MaxOpens :
    (g <= opens /\ done[g]) ~>
      \/ ~Running
      \/ \A id \in Loops :
           id[1] = g => mutPc[id] \in {"none", "done"} /\ emitPc[id] \in {"none", "done"}

\* C2: a signal with changeTime = 0 has no mutation loop, and every tuple its
\* emission loop sends or has published is the value Open made for it at its
\* initialisation.
C2_FixedSignalKeepsInitialValue ==
  \A id \in DOMAIN initial :
    SignalAt(id[1], id[2]).ChangeTime = 0 =>
      /\ mutPc[id] = "none"
      /\ \A i \in 1 .. Len(published[id]) :
           published[id][i] = Unmarshal(initial[id]).next
      /\ emitPc[id] = "send" => pending[id] = Unmarshal(initial[id]).next

\* C3: a tick of the emission loop whose decode failed publishes no tuple: a
\* failed decode leaves the map empty, so no tuple sent or published is the
\* empty map.
C3_FailedDecodePublishesNothing ==
  \A id \in Loops :
    /\ \A i \in 1 .. Len(published[id]) : published[id][i] # {}
    /\ emitPc[id] = "send" => pending[id] # {}

\* C4: once the mutation loop of a signal has sent a randomize error and
\* returned, no further tuple of that signal is published.
C4_NoTupleAfterMutationError ==
  [][\A id \in Loops : MutFailed(id) => published'[id] = published[id]]_vars

\* C5: when the initial randomize of signal k fails, Open sends that one
\* error and returns, and neither signal k nor a later one ever gets a
\* mutation or an emission loop; Open sends no error otherwise.
C5_InitFailureStopsOpen ==
  /\ openPc \in {"senderr", "returnedErr"} =>
       /\ \A id \in Loops :
            (id[1] = opens /\ id[2] >= k[opens]) =>
              mutPc[id] = "none" /\ emitPc[id] = "none"
       /\ randomizeSignal(SignalAt(opens, k[opens]), <<"lo", 0>>).status = "err"
  /\ openPc = "returnedErr" =>
       OpenErrors = <<[from |-> "Open", id |-> <<opens, k[opens]>>,
                       err |-> randomizeSignal(SignalAt(opens, k[opens]), <<"lo", 0>>).val]>>
  /\ openPc # "returnedErr" => OpenErrors = <<>>

\* Open has returned on the failed initialisation of the second signal, after
\* it had started the loops of the first
C5_Witness ==
  /\ openPc = "returnedErr"
  /\ k[opens] = 1
  /\ emitPc[<<opens, 0>>] # "none" /\ mutPc[<<opens, 0>>] # "none"

\* C6: Configure returns an error for a configuration with a signal whose
\* cyclicTime <= 0 or changeTime < 0, so that the stored configuration never
\* holds such a signal.
C6_TimingValidated ==
  /\ (call.fn = "Configure" /\ \E i \in 1 .. Len(call.in.Signal) : BadTiming(call.in.Signal[i]))
       => call.out # "nil"
  /\ \A i \in 1 .. Len(conf.Signal) : ~BadTiming(conf.Signal[i])

\* a configuration with a bad timing was refused after another one was stored
C6_Witness ==
  /\ call.fn = "Configure"
  /\ \E i \in 1 .. Len(call.in.Signal) : call.in.Signal[i].CyclicTime <= 0
  /\ \E i \in 1 .. Len(call.in.Signal) : call.in.Signal[i].ChangeTime < 0
  /\ call.out # "nil"
  /\ Len(conf.Signal) = 2

\* C7: Configure returns an error for a configuration with a signal whose
\* maxValuePhy is less than its minValuePhy as values of the declared type,
\* and does not store it.
C7_ReversedBoundsRefused ==
  /\ (call.fn = "Configure" /\ \E i \in 1 .. Len(call.in.Signal) : Reversed(call.in.Signal[i]))
       => call.out # "nil"
  /\ \A i \in 1 .. Len(conf.Signal) : ~Reversed(conf.Signal[i])

\* C8: for an integer type and bounds that parse in it with min < max,
\* randomize returns, without error or panic, a value v with min <= v < max.
C8_IntegerDrawInRange ==
  (/\ call.fn = "randomize"
   /\ call.out.status # "pending"
   /\ IntegerBoundsParse(call.in.dataType, call.in.minValuePhy, call.in.maxValuePhy)
   /\ NumLt(ParseBound(call.in.dataType, call.in.minValuePhy).val,
            ParseBound(call.in.dataType, call.in.maxValuePhy).val))
    => /\ call.out.status = "ok"
       /\ NumLe(ParseBound(call.in.dataType, call.in.minValuePhy).val, call.out.val)
       /\ NumLt(call.out.val, ParseBound(call.in.dataType, call.in.maxValuePhy).val)

\* C9: with a configuration Configure accepted, randomize does not panic on
\* an integer-typed signal whose minValuePhy equals its maxValuePhy, neither
\* in the initialisation of Open nor in a mutation tick.
C9_ZeroWidthDoesNotPanic ==
  crashed.msg \in {"invalid argument to Int31n", "invalid argument to Int63n",
                   "integer divide by zero"} =>
    ~\E id \in Loops : /\ ZeroWidth(SignalAt(id[1], id[2]))
                       /\ crashed.on = Args(SignalAt(id[1], id[2]))

\* C10: when randomize has succeeded for every configured signal, Open has
\* not returned unless the shutdown signal has fired: it stays blocked on
\* the context until then.
C10_OpenBlocksUntilShutdown ==
  (openPc \in {"returned", "returnedErr", "returnedWarn"} /\ AllRandomized) => done[opens]

\* C11: Close returns no error in every lifecycle state and changes neither
\* the stored configuration nor the slot array nor the loops that run; a
\* Close that follows a Close changes nothing at all.
C11_CloseChangesNothing ==
  [][Close => /\ call'.out = "nil"
              /\ UNCHANGED <<conf, opens, ranged, list, initial, openPc, openNs, k, done, crashed>>
              /\ UNCHANGED <<mutPc, mutTicks, mutFrom, mutErr, mutNs, mutK>>
              /\ UNCHANGED <<emitPc, emitK, pending, published, openErr, errs>>
              /\ (call.fn = "Close" => UNCHANGED vars)]_vars

\* Close has returned while an emission loop is in its send and a mutation
\* loop is at its store, before shutdown
C11_Witness ==
  /\ call.fn = "Close"
  /\ opens > 0
  /\ ~done[opens]
  /\ \E id \in Loops : emitPc[id] = "send" /\ mutPc[id] = "store"

\* C12: a Configure call that returns an error, from the decoding or from a
\* validation, leaves the stored configuration as it was; a call that returns
\* nil stores the configuration it was given.
C12_FailedConfigureKeepsConf ==
  [][(call'.fn = "Configure" /\ Configure(call'.in)) =>
         /\ call'.out # "nil" => conf' = conf
         /\ call'.out = "nil" =>
              conf' = [isNil |-> FALSE, Signal |-> call'.in.Signal]]_vars

\* a Configure call has failed on a validation after an earlier call had
\* stored a configuration with a signal, which is still the stored one
C12_Witness ==
  /\ call.fn = "Configure"
  /\ call.out \in {"cyclicTime", "changeTime", "maxValuePhy"}
  /\ ~conf.isNil
  /\ Len(conf.Signal) > 0
  /\ conf.Signal # call.in.Signal

\* the slots the step has assigned to: a goroutine of line 75 that leaves its
\* store (line 92) has stored into the slot mutK names, Open when it leaves
\* line 71 into slot k, and Open when it starts (line 57) into slot 0
Written ==
  {mutK'[id] : id \in {x \in Loops : mutPc[x] = "store" /\ mutPc'[x] = "loop"}}
    \cup (IF openPc = "store" /\ openPc' = "range" THEN {k[opens]} ELSE {})
    \cup (IF opens' # opens THEN {0} ELSE {})

\* C13: slot i is written only by Open's initialisation of signal i and by
\* the mutation loop of signal i, with bytes made from the name, type and
\* bounds of signal i, and the emission loop of signal j reads slot j and no
\* other.
C13_SlotOwnedBySignal ==
  [][/\ \A id \in Loops :
          (mutPc[id] = "store" /\ mutPc'[id] = "loop") => mutK'[id] = id[2]
     /\ \A i \in Written :
          /\ i < Len(ranged'[opens'])
          /\ list'[i] \in {Marshal(next).bytes :
                             next \in {r \in {randomizeSignal(ranged'[opens'][i + 1], rnd) :
                                                 rnd \in RunDraws} : r.status = "ok"}}
     /\ \A id \in Loops :
          (emitPc[id] = "loop" /\ emitPc'[id] = "send") => emitK'[id] = id[2]]_vars

\* C14: an emission loop reads a slot only after Open has stored the initial
\* value of that slot.
C14_ReadsInitializedSlot ==
  [][\A id \in Loops :
       (emitPc[id] = "loop" /\ emitPc'[id] = "send") =>
         /\ <<id[1], emitK'[id]>> \in DOMAIN initial
         /\ Slot(emitK'[id]) # NilBytes]_vars

\* C15: the tuple the emission loop of signal j builds at a tick is the
\* one-entry map from the name of signal j to the value slot j holds at that
\* moment, and the tuples of a signal are received in the order of the ticks.
C15_TupleIsCurrentSlotValue ==
  [][\A id \in Loops :
       /\ (emitPc[id] = "loop" /\ emitPc'[id] = "send") =>
            /\ Slot(id[2]).kind = "object"
            /\ pending'[id] = {[key |-> SignalAt(id[1], id[2]).Name, val |-> Slot(id[2]).num]}
       /\ published'[id] # published[id] =>
            published'[id] = Append(published[id], pending[id])]_vars

\* the errors the host received from the mutation goroutine id
MutErrors(id) == SelectSeq(errs, LAMBDA e : e.from = "mutation" /\ e.id = id)

\* C16: the tick at which randomize fails in the mutation loop of a signal
\* writes no slot, fires no shutdown and stops no other loop; the loop then
\* sends that error, once, and has returned: it ticks no more.
C16_MutationFailureIsLocal ==
  [][\A id \in Loops :
       /\ (mutPc[id] \in {"loop", "read"} /\ mutPc'[id] = "senderr") =>
            /\ mutErr'[id] # "nil"
            /\ UNCHANGED <<list, done, emitPc, errs, openPc>>
            /\ \A i \in Loops \ {id} : mutPc'[i] = mutPc[i]
       /\ (mutPc[id] = "senderr" /\ mutPc'[id] # "senderr") =>
            /\ mutPc'[id] = "done"
            /\ MutErrors(id) = <<>>
            /\ errs' = Append(errs, [from |-> "mutation", id |-> id, err |-> mutErr[id]])
            /\ UNCHANGED <<list, done, emitPc, openPc>>
            /\ \A i \in Loops \ {id} : mutPc'[i] = mutPc[i]
       /\ (mutPc[id] = "done" /\ mutErr[id] # "nil") =>
            /\ mutPc'[id] = "done"
            /\ mutTicks'[id] = mutTicks[id]
            /\ Len(MutErrors(id)) = 1]_vars

\* the mutation loop of a signal has sent its one error and returned, the
\* slot of the signal still holds its initial value, nothing is cancelled
\* and the emission loop of the signal is running
C16_Witness ==
  \E id \in Loops :
    /\ mutPc[id] = "done" /\ mutErr[id] # "nil"
    /\ Len(MutErrors(id)) = 1
    /\ id[2] \in DOMAIN list /\ id \in DOMAIN initial /\ list[id[2]] = initial[id]
    /\ emitPc[id] = "loop"
    /\ ~done[id[1]]

\* C17: while the emission loop of one signal is blocked in its send, every
\* mutation loop that waits for its ticker can take its tick, every mutation
\* loop that has made its bytes can store them, and every other emission
\* loop that waits for its ticker can take its tick and read its slot.
C17_BlockedSendBlocksNoSibling ==
  \A id \in Loops :
    (Running /\ emitPc[id] = "send") =>
      \A i \in Loops \ {id} :
        /\ (mutPc[i] = "loop" /\ ReadsTorn(i)
              /\ Sum(mutTicks, DOMAIN mutTicks) < MaxChanges) => ENABLED MutBegin(i)
        /\ (\/ mutPc[i] = "read"
            \/ /\ mutPc[i] = "loop" /\ ~ReadsTorn(i)
               /\ Sum(mutTicks, DOMAIN mutTicks) < MaxChanges) =>
             \E p \in {<<x[1], x[2], MarshalNext(x[2])>> :
                        x \in {<<v, randomizeSignal(v, rnd)>> :
                                 v \in TornV(i), rnd \in RunDraws}} :
               ENABLED MutStep(i, p[1], p[2], p[3])
        /\ mutPc[i] = "store" => ENABLED MutStore(i)
        /\ (emitPc[i] = "loop" /\ EmitTicksTaken < MaxTicks) =>
             \E s \in ReadK(i) : \E dec \in Decoded(s) : ENABLED EmitStep(i, s, dec)

\* the emission loop of a signal is blocked in its first send while the
\* loops of another signal have ticked, stored and published, and wait for
\* their next ticks
C17_Witness ==
  \E id \in Loops :
    /\ Running /\ emitPc[id] = "send"
    /\ published[id] = <<>>
    /\ \E i \in Loops \ {id} :
         /\ mutPc[i] = "loop" /\ mutTicks[i] = 1
         /\ emitPc[i] = "loop" /\ Len(published[i]) = 1
         /\ i[2] \in DOMAIN list /\ list[i[2]] # initial[i]

\* C18: for every configuration Configure accepted, Open stores the initial
\* value of every signal k in slot k of the array it allocated: no index
\* reaches the capacity of the array.
C18_IndexWithinCapacity ==
  /\ crashed.msg # "index out of range"
  /\ \A i \in DOMAIN list : i < ListCap
  /\ openPc \in {"wait", "returned"} =>
       \A i \in 0 .. Len(ranged[opens]) - 1 : <<opens, i>> \in DOMAIN initial

\* C19: no mutation loop ever meets a randomize error, its signal having
\* passed the same call in Open, so that the host receives at most one error
\* during one Open, and that one from Open.
C19_AtMostOneError ==
  /\ \A id \in Loops : mutErr[id] = "nil"
  /\ Len(errs) <= 1
  /\ \A n \in DOMAIN errs : errs[n].from = "Open"

\* C20: once Open has returned on the failed initialisation of signal k, the
\* loops started for the signals before k go on: until the shutdown signal
\* fires, no step ends one of them.
C20_EarlierLoopsKeepRunning ==
  [][(openPc = "returnedErr" /\ Running /\ ~done[opens] /\ ~done'[opens]) =>
       \A id \in Loops :
         /\ emitPc[id] \in {"loop", "send"} => emitPc'[id] \in {"loop", "send"}
         /\ mutPc[id] \in {"start", "loop", "read", "store"} =>
              mutPc'[id] \in {"start", "loop", "read", "store"}]_vars

====
